---- MODULE Spec2Model ----
(***************************************************************************)
(* Model of the score-fusion, run-file and evaluation routines of          *)
(* ir_system (utils.py, metrics.py).                                       *)
(*                                                                         *)
(* Python floats are modelled as rationals <<n, d>> in lowest terms with   *)
(* d > 0; of the rounding of binary floating point only the loss of an     *)
(* operand far smaller than the other is represented (see below).          *)
(* Text is modelled as a sequence of words: a string field is the sequence *)
(* of its whitespace-separated words (<<>> for the empty string), a line   *)
(* the concatenation of its fields, so str.split() is what it is in the    *)
(* code.                                                                   *)
(***************************************************************************)
EXTENDS Integers, Sequences, FiniteSets, TLC

VARIABLES pc, args, ret, file, cache, fetches

vars == <<pc, args, ret, file, cache, fetches>>

None == [none |-> TRUE]

(***************************************************************************)
(* Float arithmetic.  A float is <<n, d>>, the rational n/d, or            *)
(* <<n, d, k>> with k # 0, the value (n/d) * 2^(70k) whose n/d is of       *)
(* moderate size (within 2^7 of 1).  Values of one magnitude k are added   *)
(* and compared as rationals; a sum of values of different magnitudes is   *)
(* the one of larger magnitude, the other being less than half a unit in   *)
(* the last of the 53 bits of a double.                                    *)
(***************************************************************************)
Abs(x) == IF x < 0 THEN -x ELSE x

RECURSIVE Gcd(_, _)
Gcd(a, b) == IF b = 0 THEN a ELSE Gcd(b, a % b)

Lcm(a, b) == (a \div Gcd(a, b)) * b

Rat(n, d) ==
    LET g == Gcd(Abs(n), Abs(d))
        s == IF d < 0 THEN -1 ELSE 1
    IN  <<(s * n) \div g, (s * d) \div g>>

RZero == <<0, 1>>
ROne == <<1, 1>>

\* the magnitude of a float, its rational part, and the float of both
Magnitude(x) == IF Len(x) = 3 THEN x[3] ELSE 0
Mantissa(x) == <<x[1], x[2]>>
Scaled(q, k) == IF q[1] = 0 \/ k = 0 THEN q ELSE <<q[1], q[2], k>>

QAdd(x, y) ==
    LET l == Lcm(x[2], y[2])
    IN  Rat(x[1] * (l \div x[2]) + y[1] * (l \div y[2]), l)

QMul(x, y) ==
    LET a == Rat(x[1], y[2])
        b == Rat(y[1], x[2])
    IN  <<a[1] * b[1], a[2] * b[2]>>

QLt(x, y) ==
    LET l == Lcm(x[2], y[2])
    IN  x[1] * (l \div x[2]) < y[1] * (l \div y[2])

RAdd(x, y) ==
    IF Magnitude(x) = Magnitude(y)
    THEN Scaled(QAdd(Mantissa(x), Mantissa(y)), Magnitude(x))
    ELSE IF x[1] = 0 THEN y
    ELSE IF y[1] = 0 THEN x
    ELSE IF Magnitude(x) > Magnitude(y) THEN x ELSE y

RNeg(x) == Scaled(<<-x[1], x[2]>>, Magnitude(x))

RSub(x, y) == RAdd(x, RNeg(y))

RMul(x, y) == Scaled(QMul(Mantissa(x), Mantissa(y)), Magnitude(x) + Magnitude(y))

RDiv(x, y) == Scaled(QMul(Mantissa(x), Rat(y[2], y[1])), Magnitude(x) - Magnitude(y))

RLt(x, y) ==
    IF Magnitude(x) = Magnitude(y) THEN QLt(Mantissa(x), Mantissa(y))
    ELSE IF x[1] <= 0 /\ y[1] >= 0 THEN TRUE
    ELSE IF x[1] >= 0 /\ y[1] <= 0 THEN FALSE
    ELSE IF x[1] > 0 THEN Magnitude(x) < Magnitude(y)
    ELSE Magnitude(x) > Magnitude(y)

RLe(x, y) == ~RLt(y, x)

RECURSIVE RMin(_)
RMin(xs) ==
    IF Len(xs) = 1 THEN xs[1]
    ELSE LET m == RMin(Tail(xs)) IN IF RLt(m, xs[1]) THEN m ELSE xs[1]

RECURSIVE RMax(_)
RMax(xs) ==
    IF Len(xs) = 1 THEN xs[1]
    ELSE LET m == RMax(Tail(xs)) IN IF RLt(xs[1], m) THEN m ELSE xs[1]

(***************************************************************************)
(* Python list and dict helpers.                                           *)
(***************************************************************************)
\* lst[:n], negative n counting from the end
SlicePrefix(lst, n) ==
    LET k == IF n >= 0 THEN (IF n < Len(lst) THEN n ELSE Len(lst))
             ELSE (IF Len(lst) + n > 0 THEN Len(lst) + n ELSE 0)
    IN  SubSeq(lst, 1, k)

\* [(d, s) for d, s in lst if d not in seen]
RECURSIVE NotSeen(_, _)
NotSeen(lst, seen) ==
    IF lst = <<>> THEN <<>>
    ELSE IF Head(lst)[1] \notin seen THEN <<Head(lst)>> \o NotSeen(Tail(lst), seen)
         ELSE NotSeen(Tail(lst), seen)

DictGet(dict, k, default) == IF k \in DOMAIN dict THEN dict[k] ELSE default

DocIds(hits) == {hits[i][1] : i \in 1..Len(hits)}

\* index of the last pair of hits holding docid d
LastIndex(hits, d) ==
    CHOOSE i \in 1..Len(hits) :
        /\ hits[i][1] = d
        /\ \A j \in (i + 1)..Len(hits) : hits[j][1] # d

(***************************************************************************)
(* merge_rerank                                                            *)
(***************************************************************************)
OneE9 == <<1, 1000000000>>

\* normalize_scores with the tolerance of the module-level normalizer
normalize_scores_tolerant(hits) ==
    IF hits = <<>> THEN <<>>
    ELSE LET scores == [i \in 1..Len(hits) |-> hits[i][2]]
             min_s == RMin(scores)
             max_s == RMax(scores)
         IN  IF RLt(RSub(max_s, min_s), OneE9) THEN [d \in DocIds(hits) |-> ROne]
             ELSE [d \in DocIds(hits) |->
                     RDiv(RSub(hits[LastIndex(hits, d)][2], min_s),
                          RSub(max_s, min_s))]

\* the nested normalize_scores: a dict built pair by pair, a later pair of
\* the same docid replacing the earlier one
normalize_scores(hits) ==
    IF hits = <<>> THEN <<>>
    ELSE LET scores == [i \in 1..Len(hits) |-> hits[i][2]]
             min_s == RMin(scores)
             max_s == RMax(scores)
         IN  IF max_s = min_s THEN [d \in DocIds(hits) |-> ROne]
             ELSE [d \in DocIds(hits) |->
                     RDiv(RSub(hits[LastIndex(hits, d)][2], min_s),
                          RSub(max_s, min_s))]

\* list.sort(key=score, reverse=True): stable, equal scores keep their order
RECURSIVE InsertDesc(_, _)
InsertDesc(sorted, x) ==
    IF sorted = <<>> THEN <<x>>
    ELSE IF RLt(Head(sorted)[2], x[2]) THEN <<x>> \o sorted
         ELSE <<Head(sorted)>> \o InsertDesc(Tail(sorted), x)

RECURSIVE SortDesc(_)
SortDesc(lst) ==
    IF lst = <<>> THEN <<>>
    ELSE InsertDesc(SortDesc(SubSeq(lst, 1, Len(lst) - 1)), lst[Len(lst)])

TailEpsilon == <<1, 10000>>

\* offset = max_tail_score - min_head_score + 1e-4
TailOffset(max_tail_score, min_head_score) ==
    RAdd(RSub(max_tail_score, min_head_score), TailEpsilon)

Interpolate(lam, b, r) == RAdd(RMul(RSub(ROne, lam), b), RMul(lam, r))

\* head = base[:topn]
HeadOf(base, topn) == SlicePrefix(base, topn)

\* rerank_pairs = [(d, reranked_scores.get(d, 0.0)) for d, _ in head]
RerankPairs(head, reranked_scores) ==
    [i \in 1..Len(head) |-> <<head[i][1], DictGet(reranked_scores, head[i][1], RZero)>>]

\* base_norm = normalize_scores(head)
BaseNorm(base, topn) == normalize_scores(HeadOf(base, topn))

\* rerank_norm = normalize_scores(rerank_pairs)
RerankNorm(base, reranked_scores, topn) ==
    normalize_scores(RerankPairs(HeadOf(base, topn), reranked_scores))

merge_rerank(base, reranked_scores, topn, lam, keep_rest) ==
    LET head == HeadOf(base, topn)
        base_norm == BaseNorm(base, topn)
        rerank_norm == RerankNorm(base, reranked_scores, topn)
        combined == SortDesc([i \in 1..Len(head) |->
                        <<head[i][1],
                          Interpolate(lam,
                                      DictGet(base_norm, head[i][1], RZero),
                                      DictGet(rerank_norm, head[i][1], RZero))>>])
        seen == DocIds(combined)
        tail == NotSeen(base, seen)
        min_head_score == combined[Len(combined)][2]
        max_tail_score == tail[1][2]
        offset == TailOffset(max_tail_score, min_head_score)
    IN  IF ~keep_rest THEN combined
        ELSE IF combined # <<>> /\ tail # <<>> /\ RLe(min_head_score, max_tail_score)
             THEN combined \o [i \in 1..Len(tail) |-> <<tail[i][1], RSub(tail[i][2], offset)>>]
             ELSE combined \o tail

(***************************************************************************)
(* Calls of merge_rerank.  The arguments are drawn when the call is made;  *)
(* the action is the whole function.                                       *)
(***************************************************************************)
MaxBase == 3

Docs == {"d1", "d2", "d3"}

BaseScores == {<<0, 1>>, <<1, 2>>, <<1, 1>>}

RerankScores == {<<-1, 1>>, <<1, 1>>}

Lams == {<<0, 1>>, <<1, 2>>, <<1, 1>>}

Lists(S, n) == UNION {[1..k -> S] : k \in 0..n}

Dicts(K, V) == UNION {[S -> V] : S \in SUBSET K}

NonIncreasing(hits) ==
    \A i \in 1..(Len(hits) - 1) : RLe(hits[i + 1][2], hits[i][2])

NoFile == file = None
NoCache == cache = None /\ fetches = None

\* any base list, any reranker map
InitMerge ==
    /\ pc = "call"
    /\ args \in [base : Lists(Docs \X BaseScores, MaxBase),
                 reranked_scores : Dicts(Docs, RerankScores),
                 topn : 1..MaxBase,
                 lam : Lams,
                 keep_rest : BOOLEAN]
    /\ ret = None
    /\ NoFile
    /\ NoCache

\* scores of the order of 2^70 next to moderate ones
FuseScores == BaseScores \cup {<<1, 1, 1>>, <<2, 1, 1>>}

\* the contract of the fusion: a base ranking of distinct documents sorted
\* by descending score, the rest of the ranking kept
InitFuse ==
    /\ pc = "call"
    /\ args \in [base : {b \in Lists(Docs \X FuseScores, MaxBase) :
                            NonIncreasing(b) /\ Cardinality(DocIds(b)) = Len(b)},
                 reranked_scores : Dicts(Docs, {ROne}),
                 topn : 1..MaxBase,
                 lam : Lams,
                 keep_rest : {TRUE}]
    /\ ret = None
    /\ NoFile
    /\ NoCache

\* scores a hair apart: multiples of 5e-10
FineDocs == {"d1", "d2"}

FineScores == {<<0, 1>>, <<1, 2000000000>>, <<1, 1000000000>>}

FineRerankScores == {<<1, 2000000000>>}

InitFine ==
    /\ pc = "call"
    /\ args \in [base : Lists(FineDocs \X FineScores, MaxBase),
                 reranked_scores : Dicts(FineDocs, FineRerankScores),
                 topn : 1..MaxBase,
                 lam : Lams,
                 keep_rest : BOOLEAN]
    /\ ret = None
    /\ NoFile
    /\ NoCache

\* one call of merge_rerank; besides the returned list the two normalized
\* dicts it built on the way are kept for inspection
MergeRerank ==
    /\ pc = "call"
    /\ ret' = [value |-> merge_rerank(args.base, args.reranked_scores, args.topn,
                                      args.lam, args.keep_rest),
               base_norm |-> BaseNorm(args.base, args.topn),
               rerank_norm |-> RerankNorm(args.base, args.reranked_scores, args.topn)]
    /\ pc' = "done"
    /\ UNCHANGED <<args, file, cache, fetches>>

SpecMerge == InitMerge /\ [][MergeRerank]_vars

SpecFuse == InitFuse /\ [][MergeRerank]_vars

SpecFine == InitFine /\ [][MergeRerank]_vars

\* the part of the returned list that comes from the head, and the rest
HeadLen == Len(HeadOf(args.base, args.topn))
OutHead == SubSeq(ret.value, 1, HeadLen)
OutTail == SubSeq(ret.value, HeadLen + 1, Len(ret.value))

\* C1: with keep_rest, topn > 0, lam in [0,1] and a base of non-increasing
\* scores, the returned list is sorted by descending score and every tail
\* entry scores strictly less than every head entry, whatever the reranker
\* scores.
C1_SortedHeadAboveTail ==
    (pc = "done" /\ args.keep_rest /\ args.topn > 0
       /\ RLe(RZero, args.lam) /\ RLe(args.lam, ROne) /\ NonIncreasing(args.base))
    => /\ \A i \in 1..(Len(ret.value) - 1) : RLe(ret.value[i + 1][2], ret.value[i][2])
       /\ \A i \in 1..Len(OutHead) : \A j \in 1..Len(OutTail) :
             RLt(OutTail[j][2], OutHead[i][2])

\* C2: the output has |head| entries without keep_rest and |head| + |tail|
\* with it, and every document id of the head appears exactly once in it.
C2_LengthAndHeadIdsOnce ==
    pc = "done" =>
        LET head == SubSeq(args.base, 1,
                           IF args.topn < Len(args.base) THEN args.topn
                           ELSE Len(args.base))
            beyond == {i \in (Len(head) + 1)..Len(args.base) :
                          args.base[i][1] \notin DocIds(head)}
        IN  /\ Len(ret.value)
                  = Len(head) + (IF args.keep_rest THEN Cardinality(beyond) ELSE 0)
            /\ \A d \in DocIds(head) :
                  Cardinality({i \in 1..Len(ret.value) : ret.value[i][1] = d}) = 1

\* C8: with lam = 0 the head comes back in the order of its base scores,
\* descending, ties in input order.
C8_LamZeroKeepsBaseOrder ==
    (pc = "done" /\ args.lam = RZero)
    => LET byBase == SortDesc(HeadOf(args.base, args.topn))
       IN  [i \in 1..Len(OutHead) |-> OutHead[i][1]]
             = [i \in 1..Len(byBase) |-> byBase[i][1]]

\* the scores a normalized dict was computed from
HeadScores == [i \in 1..HeadLen |-> HeadOf(args.base, args.topn)[i][2]]
HeadRerankScores ==
    [i \in 1..HeadLen |->
        DictGet(args.reranked_scores, HeadOf(args.base, args.topn)[i][1], RZero)]

\* what a docid of the head is given: the min-max value of the score of its
\* last entry in the head
MinMaxed(scores, d) ==
    RDiv(RSub(scores[LastIndex(HeadOf(args.base, args.topn), d)], RMin(scores)),
         RSub(RMax(scores), RMin(scores)))

\* C9 as stated: whenever max - min < 1e-9 over the head's base scores (or
\* its reranker scores, 0.0 for a missing id) every head document is given
\* 1.0, otherwise (x - min) / (max - min).
C9_DegenerateBelow1e9 ==
    (pc = "done" /\ HeadLen > 0) =>
        \A norm \in {<<HeadScores, ret.base_norm>>, <<HeadRerankScores, ret.rerank_norm>>} :
            \A d \in DOMAIN norm[2] :
                norm[2][d] = IF RLt(RSub(RMax(norm[1]), RMin(norm[1])), OneE9)
                             THEN ROne
                             ELSE MinMaxed(norm[1], d)

\* C9 amended: 1.0 for every head document exactly when max = min, otherwise
\* (x - min) / (max - min), however small max - min is.
C9_DegenerateOnlyWhenEqual ==
    (pc = "done" /\ HeadLen > 0) =>
        \A norm \in {<<HeadScores, ret.base_norm>>, <<HeadRerankScores, ret.rerank_norm>>} :
            /\ DOMAIN norm[2] = DocIds(HeadOf(args.base, args.topn))
            /\ \A d \in DOMAIN norm[2] :
                  norm[2][d] = IF RMax(norm[1]) = RMin(norm[1])
                               THEN ROne
                               ELSE MinMaxed(norm[1], d)

\* a head whose base scores differ by less than 1e-9 and are still told apart
C9_Witness ==
    /\ pc = "done"
    /\ HeadLen > 1
    /\ RLt(RSub(RMax(HeadScores), RMin(HeadScores)), OneE9)
    /\ \E d \in DOMAIN ret.base_norm : ret.base_norm[d] = RZero

(***************************************************************************)
(* Run files.  A word of a line is [kind, s, n, d]: a name (kind "str",    *)
(* text s), an integer numeral (kind "int", value n) or a decimal numeral  *)
(* (kind "dec", value n / d).  A line is what line.strip().split() makes   *)
(* of it: the sequence of its words.                                       *)
(***************************************************************************)
StrWord(t) == [kind |-> "str", s |-> t, n |-> 0, d |-> 1]
IntWord(i) == [kind |-> "int", s |-> "", n |-> i, d |-> 1]
DecWord(n, d) == [kind |-> "dec", s |-> "", n |-> n, d |-> d]

Q0 == StrWord("Q0")

\* int(w) succeeds on an integer numeral only
CanInt(w) == w.kind = "int"
IntOf(w) == w.n

\* float(w) succeeds on an integer or a decimal numeral
CanFloat(w) == w.kind \in {"int", "dec"}
FloatOf(w) == Rat(w.n, w.d)

NoError == [what |-> "none", line_no |-> 0, qid |-> StrWord("")]
Raise(what, line_no, qid) == [what |-> what, line_no |-> line_no, qid |-> qid]

ParseLineAnyCol2(parts, line_no) ==
    IF Len(parts) # 6 THEN [error |-> Raise("columns", line_no, StrWord(""))]
    ELSE IF ~CanInt(parts[4]) THEN [error |-> Raise("int", 0, StrWord(""))]
    ELSE IF ~CanFloat(parts[5]) THEN [error |-> Raise("float", 0, StrWord(""))]
    ELSE [error |-> NoError, qid |-> parts[1], docid |-> parts[3],
          rank |-> IntOf(parts[4]), score |-> FloatOf(parts[5])]

\* the body of the loop over the lines, shared by validate_run_file and
\* read_trec_run: the error the line raises, or its parsed fields
ParseLine(parts, line_no) ==
    IF Len(parts) # 6 THEN [error |-> Raise("columns", line_no, StrWord(""))]
    ELSE IF parts[2] # Q0 THEN [error |-> Raise("Q0", line_no, StrWord(""))]
    ELSE IF ~CanInt(parts[4]) THEN [error |-> Raise("int", 0, StrWord(""))]
    ELSE IF ~CanFloat(parts[5]) THEN [error |-> Raise("float", 0, StrWord(""))]
    ELSE [error |-> NoError, qid |-> parts[1], docid |-> parts[3],
          rank |-> IntOf(parts[4]), score |-> FloatOf(parts[5])]

\* a dict in insertion order: a sequence of <<key, list>>
Keys(dict) == [i \in 1..Len(dict) |-> dict[i][1]]
HasKey(dict, k) == \E i \in 1..Len(dict) : dict[i][1] = k

\* dict.setdefault(k, []).append(v)
SetDefaultAppend(dict, k, v) ==
    IF HasKey(dict, k)
    THEN [i \in 1..Len(dict) |->
            IF dict[i][1] = k THEN <<k, Append(dict[i][2], v)>> ELSE dict[i]]
    ELSE Append(dict, <<k, <<v>>>>)

\* the loop over the lines from line_no on: by_qid, or the error of the
\* first line that raises
RECURSIVE GroupLines(_, _, _)
GroupLines(lines, line_no, by_qid) ==
    IF line_no > Len(lines) THEN [error |-> NoError, by_qid |-> by_qid]
    ELSE LET p == ParseLine(lines[line_no], line_no)
         IN  IF p.error # NoError THEN [error |-> p.error, by_qid |-> <<>>]
             ELSE GroupLines(lines, line_no + 1,
                             SetDefaultAppend(by_qid, p.qid,
                                 [rank |-> p.rank, docid |-> p.docid, score |-> p.score]))

(***************************************************************************)
(* validate_run_file                                                       *)
(***************************************************************************)
HitsMessage(qid, hits) == [what |-> "hits", qid |-> qid, n |-> hits]
OkMessage(queries) == [what |-> "OK", qid |-> StrWord(""), n |-> queries]

\* one query of the checking loop: what it prints and what it raises
CheckQueryStrict(qid, lst, expected_k) ==
    IF \E i \in 1..Len(lst) : lst[i].rank # i
    THEN [printed |-> <<>>, error |-> Raise("ranks", 0, qid)]
    ELSE IF Len(lst) # expected_k
         THEN [printed |-> <<>>, error |-> Raise("hits", 0, qid)]
         ELSE IF \E i \in 1..(Len(lst) - 1) : RLt(lst[i].score, lst[i + 1].score)
              THEN [printed |-> <<>>, error |-> Raise("scores", 0, qid)]
              ELSE [printed |-> <<>>, error |-> NoError]

CheckQuery(qid, lst, expected_k) ==
    LET printed == IF Len(lst) # expected_k THEN <<HitsMessage(qid, Len(lst))>> ELSE <<>>
    IN  IF \E i \in 1..Len(lst) : lst[i].rank # i
        THEN [printed |-> <<>>, error |-> Raise("ranks", 0, qid)]
        ELSE IF \E i \in 1..(Len(lst) - 1) : RLt(lst[i].score, lst[i + 1].score)
             THEN [printed |-> printed, error |-> Raise("scores", 0, qid)]
             ELSE [printed |-> printed, error |-> NoError]

RECURSIVE CheckQueries(_, _, _, _)
CheckQueries(by_qid, k, expected_k, printed) ==
    IF k > Len(by_qid)
    THEN [raised |-> NoError, printed |-> Append(printed, OkMessage(Len(by_qid)))]
    ELSE LET c == CheckQuery(by_qid[k][1], by_qid[k][2], expected_k)
         IN  IF c.error # NoError
             THEN [raised |-> c.error, printed |-> printed \o c.printed]
             ELSE CheckQueries(by_qid, k + 1, expected_k, printed \o c.printed)

validate_run_file(lines, expected_k) ==
    LET g == GroupLines(lines, 1, <<>>)
    IN  IF g.error # NoError THEN [raised |-> g.error, printed |-> <<>>]
        ELSE CheckQueries(g.by_qid, 1, expected_k, <<>>)

MaxLines == 3

Qids == {IntWord(1), IntWord(2)}

RunScores == {DecWord(9, 10), DecWord(95, 100)}

Line(qid, docid, rank, score, tag) == qid \o <<Q0>> \o docid \o <<rank>> \o <<score>> \o tag

\* lines as a run file holds them, and a few that are not records
RecordLines(docids, scores) ==
    {Line(<<q>>, <<d>>, IntWord(r), sc, <<StrWord("tag")>>) :
        q \in Qids, d \in docids, r \in 1..MaxLines, sc \in scores}

ExpectedKs == {1, 2}

EmptyLine == <<>>
NotQ0Line == <<IntWord(1), StrWord("Q1"), StrWord("d1"), IntWord(1), DecWord(9, 10), StrWord("tag")>>

InitValidate ==
    /\ pc = "call"
    /\ args \in [expected_k : ExpectedKs]
    /\ file \in Lists(RecordLines({StrWord("d1")}, RunScores) \cup {EmptyLine, NotQ0Line},
                      MaxLines)
    /\ ret = None
    /\ NoCache

ValidateRunFile ==
    /\ pc = "call"
    /\ ret' = validate_run_file(file, args.expected_k)
    /\ pc' = "done"
    /\ UNCHANGED <<args, file, cache, fetches>>

SpecValidate == InitValidate /\ [][ValidateRunFile]_vars

\* every line is a record: six fields, Q0, an integer rank, a numeric score
WellFormed(lines) ==
    \A i \in 1..Len(lines) :
        /\ Len(lines[i]) = 6
        /\ lines[i][2] = Q0
        /\ CanInt(lines[i][4])
        /\ CanFloat(lines[i][5])

LinesOf(lines, q) == {i \in 1..Len(lines) : lines[i][1] = q}
QidsOf(lines) == {lines[i][1] : i \in 1..Len(lines)}

\* the ranks of q, in file order, are not 1, 2, ..., count
BadRanks(lines, q) ==
    \E i \in LinesOf(lines, q) :
        IntOf(lines[i][4]) # Cardinality({j \in LinesOf(lines, q) : j <= i})

\* from one line of q to the next line of q the score goes up
ScoreRises(lines, q) ==
    \E i, j \in LinesOf(lines, q) :
        /\ i < j
        /\ ~\E k \in LinesOf(lines, q) : i < k /\ k < j
        /\ RLt(FloatOf(lines[i][5]), FloatOf(lines[j][5]))

WrongCount(lines, q, expected_k) == Cardinality(LinesOf(lines, q)) # expected_k

Fatal == ret.raised # NoError
Printed(what) == {ret.printed[i].qid : i \in {j \in 1..Len(ret.printed) : ret.printed[j].what = what}}

\* C3: on a well-formed run file validate_run_file ends in a fatal error
\* exactly when some query's ranks are not 1..count or some query's score
\* rises; a count other than expected_k is a warning only: it is never the
\* error, and without a fatal error the run ends with the success summary
\* and a warning for exactly the queries of another count.
C3_FatalIffRanksOrScores ==
    (pc = "done" /\ WellFormed(file)) =>
        /\ Fatal <=> \E q \in QidsOf(file) : BadRanks(file, q) \/ ScoreRises(file, q)
        /\ ret.raised.what \in {"none", "ranks", "scores"}
        /\ Fatal => /\ BadRanks(file, ret.raised.qid) \/ ScoreRises(file, ret.raised.qid)
                    /\ Printed("OK") = {}
        /\ ~Fatal =>
              /\ ret.printed[Len(ret.printed)] = OkMessage(Cardinality(QidsOf(file)))
              /\ Printed("hits") = {q \in QidsOf(file) : WrongCount(file, q, args.expected_k)}

\* a query of another count drew its warning and a later query still
\* raised the fatal error
C3_Witness ==
    /\ pc = "done"
    /\ WellFormed(file)
    /\ Fatal
    /\ \E q \in Printed("hits") : q # ret.raised.qid /\ ~BadRanks(file, q) /\ ~ScoreRises(file, q)

(***************************************************************************)
(* write_trec_run and read_trec_run                                        *)
(***************************************************************************)
Million == 1000000

\* f"{score:.6f}": the nearest multiple of 1e-6, a tie going to the even one
FormatScoreTruncated(score) ==
    LET a == Abs(score[1]) * Million
        m == a \div score[2]
    IN  DecWord(IF score[1] < 0 THEN -m ELSE m, Million)

FormatScore(score) ==
    LET a == Abs(score[1]) * Million
        q == a \div score[2]
        r == a % score[2]
        m == IF 2 * r > score[2] \/ (2 * r = score[2] /\ q % 2 = 1) THEN q + 1 ELSE q
    IN  DecWord(IF score[1] < 0 THEN -m ELSE m, Million)

\* the lines of one query: rank counted from 1 in the order of hits
HitLines(qid, hits, run_tag) ==
    [k \in 1..Len(hits) |->
        Line(<<qid>>, hits[k][1], IntWord(k), FormatScore(hits[k][2]), run_tag)]

\* sorted(rankings.keys(), key=int)
RECURSIVE SortedQids(_)
SortedQids(qids) ==
    IF qids = {} THEN <<>>
    ELSE LET q == CHOOSE x \in qids : \A y \in qids : IntOf(x) <= IntOf(y)
         IN  <<q>> \o SortedQids(qids \ {q})

RECURSIVE WriteQueries(_, _, _)
WriteQueries(qids, rankings, run_tag) ==
    IF qids = <<>> THEN <<>>
    ELSE HitLines(Head(qids), rankings[Head(qids)], run_tag)
         \o WriteQueries(Tail(qids), rankings, run_tag)

write_trec_run(run_tag, rankings) ==
    WriteQueries(SortedQids(DOMAIN rankings), rankings, run_tag)

\* triples.sort(key=rank): stable, equal ranks keep their order
RECURSIVE InsertByRank(_, _)
InsertByRank(sorted, x) ==
    IF sorted = <<>> THEN <<x>>
    ELSE IF x.rank < Head(sorted).rank THEN <<x>> \o sorted
         ELSE <<Head(sorted)>> \o InsertByRank(Tail(sorted), x)

RECURSIVE SortByRank(_)
SortByRank(triples) ==
    IF triples = <<>> THEN <<>>
    ELSE InsertByRank(SortByRank(SubSeq(triples, 1, Len(triples) - 1)),
                      triples[Len(triples)])

RankingOfFileOrder(triples) ==
    [k \in 1..Len(triples) |-> <<triples[k].docid, triples[k].score>>]

\* triples.sort(key=lambda x: x[0])
\* rankings[qid] = [(docid, float(score)) for _, docid, score in triples]
RankingOf(triples) ==
    LET sorted == SortByRank(triples)
    IN  [k \in 1..Len(sorted) |-> <<sorted[k].docid, sorted[k].score>>]

read_trec_run(lines) ==
    LET g == GroupLines(lines, 1, <<>>)
    IN  IF g.error # NoError THEN [raised |-> g.error, returned |-> FALSE, value |-> <<>>]
        ELSE [raised |-> NoError, returned |-> TRUE,
              value |-> [q \in {g.by_qid[i][1] : i \in 1..Len(g.by_qid)} |->
                           RankingOf((CHOOSE e \in {g.by_qid[i] : i \in 1..Len(g.by_qid)} :
                                         e[1] = q)[2])]]

(***************************************************************************)
(* Writing a run and reading it back.                                      *)
(***************************************************************************)
MaxHits == 2

\* a document id or a run tag as the words it is made of: none for the
\* empty string, two for a string with a blank inside
DocIdFields == {<<>>, <<StrWord("d1")>>, <<StrWord("d2")>>}

TagFields == {<<>>, <<StrWord("tag")>>, <<StrWord("my")>> \o <<StrWord("tag")>>}

\* 2/3 rounds up, -1/128 = -0.0078125 lies halfway between two multiples of 1e-6
HitScores == {<<2, 3>>, <<-1, 128>>}

InitRoundTrip ==
    /\ pc = "rankings"
    /\ args \in [run_tag : TagFields,
                 rankings : Dicts(Qids, Lists(DocIdFields \X HitScores, MaxHits))]
    /\ NoFile
    /\ ret = None
    /\ NoCache

WriteTrecRun ==
    /\ pc = "rankings"
    /\ file' = write_trec_run(args.run_tag, args.rankings)
    /\ pc' = "file"
    /\ UNCHANGED <<args, ret, cache, fetches>>

ReadTrecRun ==
    /\ pc = "file"
    /\ ret' = read_trec_run(file)
    /\ pc' = "done"
    /\ UNCHANGED <<args, file, cache, fetches>>

SpecRoundTrip == InitRoundTrip /\ [][WriteTrecRun \/ ReadTrecRun]_vars

\* r is s rounded to 6 decimal places: a multiple of 1e-6 within 5e-7 of s
Rounded6(r, s) ==
    /\ Million % r[2] = 0
    /\ RLe(RSub(r, s), <<1, 2 * Million>>)
    /\ RLe(RSub(s, r), <<1, 2 * Million>>)

NonEmptyQids(rankings) == {q \in DOMAIN rankings : rankings[q] # <<>>}

\* the run that was written is the run that was read: the same queries, the
\* same documents at the same ranks, every score rounded to 6 decimals
SameRun(rankings, read) ==
    /\ DOMAIN read = NonEmptyQids(rankings)
    /\ \A q \in DOMAIN read :
          /\ Len(read[q]) = Len(rankings[q])
          /\ \A k \in 1..Len(read[q]) :
                /\ <<read[q][k][1]>> = rankings[q][k][1]
                /\ Rounded6(read[q][k][2], rankings[q][k][2])

WhitespaceFreeDocIds(rankings) ==
    \A q \in DOMAIN rankings : \A k \in 1..Len(rankings[q]) : Len(rankings[q][k][1]) <= 1

NonEmptyDocIds(rankings) ==
    \A q \in DOMAIN rankings : \A k \in 1..Len(rankings[q]) : Len(rankings[q][k][1]) >= 1

\* C4 as stated: for every run set of numeric query ids and whitespace-free
\* document ids, reading the written file gives back the same (query,
\* document, rank) triples, scores rounded to 6 decimal places.
C4_RoundTrip ==
    (pc = "done" /\ WhitespaceFreeDocIds(args.rankings))
    => ret.raised = NoError /\ SameRun(args.rankings, ret.value)

\* C4 amended: the same, for document ids and a run tag that are non-empty
\* and whitespace-free.
C4_RoundTripOfTokens ==
    (pc = "done" /\ WhitespaceFreeDocIds(args.rankings)
       /\ NonEmptyDocIds(args.rankings) /\ Len(args.run_tag) = 1)
    => ret.raised = NoError /\ SameRun(args.rankings, ret.value)

\* two queries written and read back, a score changed by the rounding
C4_Witness ==
    /\ pc = "done"
    /\ Len(args.run_tag) = 1
    /\ ret.raised = NoError
    /\ Cardinality(DOMAIN ret.value) = 2
    /\ \E q \in DOMAIN ret.value :
          /\ Len(ret.value[q]) = 2
          /\ ret.value[q][1][1] # ret.value[q][2][1]
          /\ ret.value[q][1][2] # args.rankings[q][1][2]

(***************************************************************************)
(* Reading a file whose lines come in any order.                           *)
(***************************************************************************)
ReadLines ==
    {Line(<<IntWord(1)>>, <<StrWord(d)>>, IntWord(r), DecWord(9, 10), <<StrWord("tag")>>) :
        d \in {"d1", "d2"}, r \in {1, 2}}
    \cup {Line(<<IntWord(2)>>, <<StrWord("d1")>>, IntWord(1), DecWord(9, 10), <<StrWord("tag")>>)}

FiveFieldLine == <<IntWord(1), Q0, StrWord("d1"), IntWord(1), DecWord(9, 10)>>
NotIntRankLine == <<IntWord(1), Q0, StrWord("d1"), StrWord("x"), DecWord(9, 10), StrWord("tag")>>

InitRead ==
    /\ pc = "file"
    /\ file \in Lists(ReadLines \cup {EmptyLine, NotQ0Line, FiveFieldLine, NotIntRankLine},
                      MaxLines)
    /\ args = [original |-> file, permuted |-> FALSE]
    /\ ret = None
    /\ NoCache

\* the lines of the file put in another order before it is read
PermuteLines ==
    /\ pc = "file"
    /\ ~args.permuted
    /\ \E p \in Permutations(1..Len(file)) :
          file' = [i \in 1..Len(file) |-> file[p[i]]]
    /\ args' = [args EXCEPT !.permuted = TRUE]
    /\ UNCHANGED <<pc, ret, cache, fetches>>

SpecRead == InitRead /\ [][PermuteLines \/ ReadTrecRun]_vars

\* no query has two lines of the same rank
DistinctRanks(lines) ==
    \A i, j \in 1..Len(lines) :
        (i # j /\ lines[i][1] = lines[j][1]) => lines[i][4] # lines[j][4]

\* the list of q by ascending rank: its k-th entry is the line of q that has
\* k lines of q of a rank up to its own
ByRank(lines, q, read) ==
    /\ Len(read) = Cardinality(LinesOf(lines, q))
    /\ \A i \in LinesOf(lines, q) :
          LET k == Cardinality({j \in LinesOf(lines, q) :
                                   IntOf(lines[j][4]) <= IntOf(lines[i][4])})
          IN  read[k] = <<lines[i][3], FloatOf(lines[i][5])>>

\* C5 as stated: for every well-formed run file and every permutation of its
\* lines the mapping read is the same, each list by ascending rank.
C5_AnyOrderSameMapping ==
    (pc = "done" /\ WellFormed(args.original))
    => ret = read_trec_run(args.original)

\* C5 amended: for every well-formed run file in which no query has two
\* lines of the same rank, and every permutation of its lines, the mapping
\* read is the same, each query's list by ascending parsed rank whatever the
\* position of its lines.
C5_DistinctRanksSameMapping ==
    (pc = "done" /\ WellFormed(args.original) /\ DistinctRanks(args.original))
    => /\ ret = read_trec_run(args.original)
       /\ ret.raised = NoError
       /\ DOMAIN ret.value = QidsOf(file)
       /\ \A q \in DOMAIN ret.value : ByRank(file, q, ret.value[q])

\* a file read with the lines of a query in descending rank
C5_Witness ==
    /\ pc = "done"
    /\ args.permuted
    /\ file # args.original
    /\ WellFormed(file)
    /\ DistinctRanks(file)
    /\ \E i, j \in 1..Len(file) :
          i < j /\ file[i][1] = file[j][1] /\ IntOf(file[i][4]) > IntOf(file[j][4])

Malformed(line) == Len(line) # 6 \/ line[2] # Q0
Unparsable(line) == ~Malformed(line) /\ (~CanInt(line[4]) \/ ~CanFloat(line[5]))
MalformedError == ret.raised.what \in {"columns", "Q0"}

\* C6 as stated (for lines whose rank and score are numerals): the
\* malformed-line error is raised exactly when some non-empty line has not
\* exactly 6 fields or a second field other than Q0; empty lines are no
\* cause of failure; on failure no run set is returned.
C6_NonEmptyMalformedOnly ==
    (pc = "done" /\ \A i \in 1..Len(file) : ~Unparsable(file[i]))
    => /\ MalformedError <=> \E i \in 1..Len(file) : file[i] # <<>> /\ Malformed(file[i])
       /\ ret.raised # NoError => ~ret.returned

\* C6 amended: the malformed-line error is raised, naming the line, exactly
\* when some line, an empty one included, has not exactly 6 fields or a
\* second field other than Q0 and no line before the first such line has a
\* rank or score that is no numeral; on failure no run set is returned.
C6_AnyMalformedLine ==
    pc = "done" =>
        LET bad == {i \in 1..Len(file) : Malformed(file[i])}
            first == CHOOSE i \in bad : \A j \in bad : i <= j
            reached == bad # {} /\ \A j \in 1..(first - 1) : ~Unparsable(file[j])
        IN  /\ MalformedError <=> reached
            /\ reached => ret.raised.line_no = first
            /\ ret.raised # NoError <=> ~ret.returned

\* an empty line after a record, named by the error
C6_Witness ==
    /\ pc = "done"
    /\ Len(file) >= 2
    /\ ~Malformed(file[1]) /\ ~Unparsable(file[1])
    /\ file[2] = <<>>
    /\ ret.raised = Raise("columns", 2, StrWord(""))
    /\ ~ret.returned

(***************************************************************************)
(* average_precision                                                       *)
(***************************************************************************)
\* the loop from position i on, hit_count and sum_prec as they stand
RECURSIVE SumPrec(_, _, _, _, _)
SumPrec(ranked_docids, relevant_set, i, hit_count, sum_prec) ==
    IF i > Len(ranked_docids) THEN sum_prec
    ELSE IF ranked_docids[i] \in relevant_set
         THEN SumPrec(ranked_docids, relevant_set, i + 1, hit_count + 1,
                      RAdd(sum_prec, Rat(hit_count + 1, i)))
         ELSE SumPrec(ranked_docids, relevant_set, i + 1, hit_count, sum_prec)

average_precision(ranked_docids, relevant_set) ==
    IF relevant_set = {} THEN RZero
    ELSE RDiv(SumPrec(ranked_docids, relevant_set, 1, 0, RZero),
              Rat(Cardinality(relevant_set), 1))

MaxRanked == 3

InitAP ==
    /\ pc = "call"
    /\ args \in [ranked_docids : Lists(Docs, MaxRanked), relevant_set : SUBSET Docs]
    /\ ret = None
    /\ NoFile
    /\ NoCache

AveragePrecision ==
    /\ pc = "call"
    /\ ret' = average_precision(args.ranked_docids, args.relevant_set)
    /\ pc' = "done"
    /\ UNCHANGED <<args, file, cache, fetches>>

SpecAP == InitAP /\ [][AveragePrecision]_vars

\* the positions that hold a relevant document, and the hits up to one
HitPositions == {i \in 1..Len(args.ranked_docids) : args.ranked_docids[i] \in args.relevant_set}
HitsUpTo(i) == Cardinality({j \in HitPositions : j <= i})

RECURSIVE SumOverHits(_)
SumOverHits(positions) ==
    IF positions = {} THEN RZero
    ELSE LET i == CHOOSE x \in positions : TRUE
         IN  RAdd(Rat(HitsUpTo(i), i), SumOverHits(positions \ {i}))

\* C7: average_precision is in [0,1] for every ranked sequence and every
\* relevant set: 0.0 for an empty relevant set, otherwise the sum of h/i
\* over the positions i of the relevant documents divided by the size of
\* the relevant set.
C7_AveragePrecisionInUnitInterval ==
    pc = "done" =>
        /\ RLe(RZero, ret) /\ RLe(ret, ROne)
        /\ ret = IF args.relevant_set = {} THEN RZero
                 ELSE RDiv(SumOverHits(HitPositions), Rat(Cardinality(args.relevant_set), 1))

(***************************************************************************)
(* safe_raw: the calls that share one cache.  searcher.doc(docid) is a     *)
(* document with its raw text, or nothing; the searcher is an argument of  *)
(* each call, so what it holds may differ from call to call.               *)
(***************************************************************************)
MaxCalls == 3

CachedDocs == {"d1", "d2"}

NoDocument == [found |-> FALSE, raw |-> ""]
Document(text) == [found |-> TRUE, raw |-> text]

Searchers == [CachedDocs -> {NoDocument, Document("text"), Document("other text")}]

\* d = searcher.doc(docid); raw = d.raw() if d is not None else ""
RawOf(searcher, docid) == IF searcher[docid].found THEN searcher[docid].raw ELSE ""

\* what a call returns, the cache after it, and whether the searcher was asked
safe_raw_uncached(searcher, docid, c) ==
    [ret |-> RawOf(searcher, docid),
     cache |-> [d \in DOMAIN c \cup {docid} |->
                  IF d = docid THEN RawOf(searcher, docid) ELSE c[d]],
     asked |-> TRUE]

safe_raw(searcher, docid, c) ==
    IF docid \in DOMAIN c
    THEN [ret |-> c[docid], cache |-> c, asked |-> FALSE]
    ELSE [ret |-> RawOf(searcher, docid),
          cache |-> [d \in DOMAIN c \cup {docid} |->
                       IF d = docid THEN RawOf(searcher, docid) ELSE c[d]],
          asked |-> TRUE]

InitCache ==
    /\ pc = "idle"
    /\ args = [docid |-> "", searcher |-> <<>>, call_no |-> 0]
    /\ ret = ""
    /\ cache = <<>>
    /\ fetches = [d \in CachedDocs |-> <<>>]
    /\ NoFile

\* one call; fetches logs what the searcher gave each time it was asked
SafeRaw ==
    /\ args.call_no < MaxCalls
    /\ \E docid \in CachedDocs, searcher \in Searchers :
          LET r == safe_raw(searcher, docid, cache)
          IN  /\ args' = [docid |-> docid, searcher |-> searcher, call_no |-> args.call_no + 1]
              /\ ret' = r.ret
              /\ cache' = r.cache
              /\ fetches' = IF r.asked
                            THEN [fetches EXCEPT ![docid] = Append(@, RawOf(searcher, docid))]
                            ELSE fetches
    /\ pc' = "called"
    /\ UNCHANGED file

SpecCache == InitCache /\ [][SafeRaw]_vars

\* C10: over the calls that share a cache which starts empty, the backend is
\* asked at most once for a document id, every call for the id returns what
\* that first fetch gave (the empty string for a document the backend does
\* not have), and the cache only grows: an entry is never changed or removed.
C10_FetchedOnceCacheOnlyGrows ==
    /\ [](/\ \A d \in CachedDocs :
               /\ Len(fetches[d]) <= 1
               /\ d \in DOMAIN cache <=> Len(fetches[d]) = 1
               /\ d \in DOMAIN cache => cache[d] = fetches[d][1]
          /\ pc = "called" => ret = fetches[args.docid][1])
    /\ [][/\ \A d \in DOMAIN cache : d \in DOMAIN cache' /\ cache'[d] = cache[d]
          /\ args'.docid \notin DOMAIN cache
                => /\ fetches'[args'.docid] = <<RawOf(args'.searcher, args'.docid)>>
                   /\ ret' = RawOf(args'.searcher, args'.docid)]_vars

\* a second call for a document the backend has since lost: the text of the
\* first fetch is returned and the backend is not asked
C10_Witness ==
    /\ pc = "called"
    /\ args.call_no >= 2
    /\ fetches[args.docid] = <<"text">>
    /\ ~args.searcher[args.docid].found
    /\ ret = "text"
    /\ Cardinality(DOMAIN cache) = 2

====
